---- MODULE Spec2Model ----
(***************************************************************************)
(* Model of src/tts_app.py: the style registry voice_styles, the audio     *)
(* pipeline process_audio (decode, speed, pitch/effect, gain, export) and   *)
(* the Streamlit script main() that calls it.                               *)
(*                                                                         *)
(* A PCM buffer (pydub.AudioSegment) is a record                            *)
(*   [data, frame_rate, sample_width, channels]                             *)
(* where data is the interleaved sequence of integer samples, sample_width  *)
(* is in bytes and frame_rate in Hz.  Floats of the source are modelled as  *)
(* exact rationals (numerator, denominator); where the source's IEEE-754    *)
(* evaluation differs from the rational value the float result is tabled.  *)
(* The library calls of process_audio (pydub's speedup, append, fade,       *)
(* overlay, apply_gain and set_frame_rate, audioop's mul and add, numpy's   *)
(* astype, librosa's pitch_shift) are modelled by what those libraries do   *)
(* with the arguments the source passes.                                    *)
(***************************************************************************)
EXTENDS Integers, Sequences, FiniteSets, TLC

(***************************************************************************)
(* Integer helpers: Python int(), round(), min(), floor division.           *)
(***************************************************************************)
Min(a, b) == IF a <= b THEN a ELSE b

Max(a, b) == IF a >= b THEN a ELSE b

\* int(a / b) for b > 0: truncation toward zero
PyInt(a, b) == IF a >= 0 THEN a \div b ELSE -((-a) \div b)

\* round(a / b) for a >= 0, b > 0: round half to even
PyRound(a, b) ==
    LET q == a \div b
        r == a % b
    IN  IF 2 * r < b THEN q
        ELSE IF 2 * r > b THEN q + 1
        ELSE IF q % 2 = 0 THEN q ELSE q + 1

\* math.ceil(a / b) for a >= 0, b > 0
PyCeil(a, b) == (a + b - 1) \div b

(***************************************************************************)
(* Sample arithmetic of a signed integer format of `width` bytes.           *)
(***************************************************************************)
MaxSample(width) == 2 ^ (8 * width - 1) - 1

MinSample(width) == -(2 ^ (8 * width - 1))

\* audioop's fbound: saturate to the format's range
Clamp(v, width) ==
    IF v > MaxSample(width) THEN MaxSample(width)
    ELSE IF v < MinSample(width) THEN MinSample(width)
    ELSE v

\* two's-complement reduction modulo 2^(8*width)
Wrap(v, width) ==
    LET m == 2 ^ (8 * width)
        r == v % m
    IN  IF r > MaxSample(width) THEN r - m ELSE r

\* floor(s * (hi / 10^4 + lo / 10^7)) without leaving 32-bit integers
\* (hi >= 0, 0 <= lo < 1000)
MulFloor(s, hi, lo) ==
    LET p  == s * hi
        q1 == p \div 10000
        r1 == p % 10000
    IN  q1 + ((r1 * 1000 + s * lo) \div 10000000)

\* audioop.mul on one sample: floor of the product, saturated
MulSample(s, hi, lo, width) == Clamp(MulFloor(s, hi, lo), width)

\* audioop.add on one pair of samples: saturated sum
AddSample(a, b, width) == Clamp(a + b, width)

RECURSIVE GCD(_, _)
GCD(a, b) == IF b = 0 THEN a ELSE GCD(b, a % b)

\* floor(s * f) for the fade factor f = k/n + (n - k)/(n * 10^6), the linear
\* ramp between db_to_float(-120) = 10^-6 (k = 0) and db_to_float(0) = 1
\* (k = n) that AudioSegment.fade steps through; 0 <= k <= n, n > 0
RampMulFloor(s, k, n) ==
    LET p   == s * k
        q   == p \div n
        rem == p % n
    IN  q + ((rem * 1000000 + s * (n - k)) \div (n * 1000000))

RampMulSample(s, k, n, width) == Clamp(RampMulFloor(s, k, n), width)

(***************************************************************************)
(* pydub.AudioSegment, as used by process_audio.  Positions are in          *)
(* milliseconds, as in pydub.                                               *)
(***************************************************************************)
Seg(data, frame_rate, sample_width, channels) ==
    [data |-> data, frame_rate |-> frame_rate,
     sample_width |-> sample_width, channels |-> channels]

\* AudioSegment._spawn(data): same metadata, new data
Spawn(seg, data) == [seg EXCEPT !.data = data]

\* AudioSegment._spawn(data, overrides={"frame_rate": r})
SpawnWithRate(seg, data, r) == [seg EXCEPT !.data = data, !.frame_rate = r]

\* AudioSegment.frame_count()
FrameCount(seg) == Len(seg.data) \div seg.channels

\* AudioSegment.__len__: round(1000 * frame_count / frame_rate)
LenMs(seg) == PyRound(1000 * FrameCount(seg), seg.frame_rate)

\* int(AudioSegment.frame_count(ms)) for ms >= 0
FramesOfMs(seg, ms) == (ms * seg.frame_rate) \div 1000

\* AudioSegment._parse_position: a negative position counts from the end
ParsePosition(seg, val) ==
    LET v == IF val < 0 THEN LenMs(seg) - (-val) ELSE val
    IN  Max(0, PyInt(v * seg.frame_rate, 1000))

\* a mutation: the end of the slice is taken as a sample position, not a
\* frame position
FrameSliceBySample(seg, first, last) ==
    LET have == Min(last, Len(seg.data))
    IN  IF first * seg.channels >= have THEN << >>
        ELSE SubSeq(seg.data, first * seg.channels + 1, have)

\* the frames first+1 .. last of seg.data (frame indices, 0-based half-open
\* [first, last) as in Python), padded with silence when the data ends early
FrameSlice(seg, first, last) ==
    LET c    == seg.channels
        have == Min(last, FrameCount(seg))
        body == IF first >= have THEN << >>
                ELSE SubSeq(seg.data, first * c + 1, have * c)
        miss == IF last > first THEN (last - first) * c - Len(body) ELSE 0
    IN  body \o [i \in 1..miss |-> 0]

\* AudioSegment.__getitem__(slice(start, end)), both given in ms
Slice(seg, start, end) ==
    LET s == Min(start, LenMs(seg))
        e == Min(end, LenMs(seg))
    IN  Spawn(seg, FrameSlice(seg, ParsePosition(seg, s), ParsePosition(seg, e)))

\* seg[start:]
SliceFrom(seg, start) == Slice(seg, start, LenMs(seg))

\* seg[:end]
SliceTo(seg, end) == Slice(seg, 0, end)

\* pydub.utils.make_chunks: ceil(len / chunk_length) consecutive slices
MakeChunks(seg, chunk_length) ==
    [i \in 1..PyCeil(LenMs(seg), chunk_length) |->
        Slice(seg, (i - 1) * chunk_length, i * chunk_length)]

\* the millisecond whose one-millisecond slice seg[i] holds frame j (0-based)
MsOfFrame(seg, j) == PyCeil((j + 1) * 1000, seg.frame_rate) - 1

\* AudioSegment.fade over the whole segment (start=0, end=inf) between gain
\* 0 dB and -120 dB.  rising = FALSE is fade(to_gain=-120), rising = TRUE is
\* fade(from_gain=-120).  Fades longer than 100 ms step the gain once per
\* millisecond, shorter ones once per frame.
Fade(seg, rising) ==
    LET ms     == LenMs(seg)
        frames == FramesOfMs(seg, ms)
        c      == seg.channels
        g      == GCD(1000, seg.frame_rate)
        coarse == ms > 100
        n      == IF coarse THEN ms ELSE ms * (seg.frame_rate \div g)
        step(j) == IF coarse THEN MsOfFrame(seg, j) ELSE j * (1000 \div g)
        k(j)   == IF rising THEN step(j) ELSE n - step(j)
    IN  Spawn(seg, [i \in 1..(frames * c) |->
            RampMulSample(seg.data[i], k((i - 1) \div c), n, seg.sample_width)])

\* AudioSegment.overlay(seg2, position=0, loop=True), which `seg1 * seg2`
\* calls: seg2 is added onto seg1 again and again until seg1 ends
\* (audioop.add saturates).  The result is as long as seg1.
OverlayLoop(seg1, seg2) ==
    LET n2 == Len(seg2.data)
    IN  IF n2 = 0 THEN seg1
        ELSE Spawn(seg1, [i \in 1..Len(seg1.data) |->
                AddSample(seg1.data[i], seg2.data[((i - 1) % n2) + 1],
                          seg1.sample_width)])

\* a result of a call that may raise
Ok(seg) == [ok |-> TRUE, seg |-> seg, error |-> "none"]

Raise(seg, error) == [ok |-> FALSE, seg |-> seg, error |-> error]

\* AudioSegment.append(seg2, crossfade)
append(seg1, seg2, crossfade) ==
    IF crossfade = 0 THEN Ok(Spawn(seg1, seg1.data \o seg2.data))
    ELSE IF crossfade > LenMs(seg1) \/ crossfade > LenMs(seg2)
    THEN Raise(seg1, "ValueError: crossfade is longer than a segment")
    ELSE
        LET xf == OverlayLoop(Fade(SliceFrom(seg1, -crossfade), FALSE),
                              Fade(SliceTo(seg2, crossfade), TRUE))
        IN  Ok(Spawn(seg1, SliceTo(seg1, -crossfade).data \o xf.data
                           \o SliceFrom(seg2, crossfade).data))

\* out = chunks[first]; for chunk in chunks[first+1 .. last]: out.append(chunk)
RECURSIVE AppendAll(_, _, _, _)
AppendAll(out, chunks, next, crossfade) ==
    IF ~out.ok \/ next > Len(chunks) THEN out
    ELSE AppendAll(append(out.seg, chunks[next], crossfade), chunks,
                   next + 1, crossfade)

\* defaults of pydub.effects.speedup
chunk_size == 150

crossfade_ms == 25

\* int(chunk_size * (1 - atk) / atk) with atk = 1.0 / playback_speed, as the
\* IEEE-754 doubles of CPython evaluate it (speed in tenths); the last arm
\* is the exact value int(chunk_size * (speed - 1))
MsToRemovePerChunk(speed10) ==
    CASE speed10 = 12 -> 29
      [] speed10 = 11 -> 15
      [] speed10 = 10 -> 0
      [] speed10 = 9  -> -15
      [] speed10 = 8  -> -30
      [] OTHER        -> PyInt(chunk_size * (speed10 - 10), 10)

\* pydub.effects.speedup(seg, playback_speed) for playback_speed < 2.0,
\* with the default chunk_size and crossfade
speedup(seg, speed10) ==
    LET rm     == MsToRemovePerChunk(speed10)
        cf     == Min(crossfade_ms, rm - 1)
        chunks == MakeChunks(seg, chunk_size + rm)
        n      == Len(chunks)
        cut    == rm - cf
        kept   == [i \in 1..(n - 1) |-> SliceTo(chunks[i], -cut)]
        out    == AppendAll(Ok(kept[1]), kept, 2, cf)
    IN  IF n < 2
        THEN Raise(seg, "Exception: Could not speed up AudioSegment, it was too short")
        ELSE IF ~out.ok THEN out
        ELSE append(out.seg, chunks[n], 0)

\* AudioSegment.apply_gain factor db_to_float(db) = 10 ^ (db / 20), cut to
\* seven decimals: <<hi, lo>> stands for hi / 10^4 + lo / 10^7
db_to_float(db) ==
    CASE db = 0   -> <<10000, 0>>
      [] db = 2   -> <<12589, 254>>
      [] db = -3  -> <<7079, 457>>
      [] db = 6   -> <<19952, 623>>
      [] db = -10 -> <<3162, 277>>

\* AudioSegment.apply_gain, which `audio += volume` calls:
\* audioop.mul(data, sample_width, db_to_float(volume))
apply_gain(seg, db) ==
    LET f == db_to_float(db)
    IN  Spawn(seg, [i \in 1..Len(seg.data) |->
            MulSample(seg.data[i], f[1], f[2], seg.sample_width)])

\* 2 ** (pitch / 1200) times 10^6, cut to an integer
PitchRatio(pitch) ==
    CASE pitch = 0   -> 1000000
      [] pitch = 50  -> 1029302
      [] pitch = -30 -> 982820
      [] pitch = 20  -> 1011619
      [] pitch = -50 -> 971531

\* audioop.ratecv as a linear interpolation between neighbouring frames
ratecv(seg, frame_rate) ==
    LET c      == seg.channels
        n      == FrameCount(seg)
        frames == (n * frame_rate) \div seg.frame_rate
        at(j, ch) ==
            LET pos == j * seg.frame_rate
                i0  == pos \div frame_rate
                fr  == pos % frame_rate
                a   == seg.data[i0 * c + ch]
                b   == IF i0 + 1 < n THEN seg.data[(i0 + 1) * c + ch] ELSE a
            IN  (a * (frame_rate - fr) + b * fr) \div frame_rate
    IN  [i \in 1..(frames * c) |-> at((i - 1) \div c, ((i - 1) % c) + 1)]

\* AudioSegment.set_frame_rate: a segment already at that rate is returned
\* as it is, any other is converted by audioop.ratecv
set_frame_rate(seg, frame_rate) ==
    IF frame_rate = seg.frame_rate THEN seg
    ELSE SpawnWithRate(seg, ratecv(seg, frame_rate), frame_rate)

\* lines 53-55: new_sample_rate = int(frame_rate * 2 ** (pitch / 1200));
\* audio = audio._spawn(raw_data, overrides); then
\* audio = audio.set_frame_rate(audio.frame_rate), where `audio` is already
\* the re-tagged segment
ResamplePitch(seg, pitch) ==
    LET new_sample_rate == (seg.frame_rate * PitchRatio(pitch)) \div 1000000
        tagged          == SpawnWithRate(seg, seg.data, new_sample_rate)
    IN  set_frame_rate(tagged, tagged.frame_rate)

\* librosa.effects.pitch_shift(samples.astype(float), sr, n_steps=5) returns
\* a float array as long as its input.  Its values come out of a phase
\* vocoder and a resampler; they are modelled as the input scaled by one of
\* these ratios in eighths (8 = unchanged, 9 = a 12.5 % overshoot), so a
\* float sample is an integer number of eighths.
PitchShiftGains == {4, 8, 9}

pitch_shift(samples, g) == [i \in 1..Len(samples) |-> samples[i] * g]

\* ndarray.astype(np.int16) of a float array: a value in range is cut toward
\* zero; a value out of range is undefined behaviour of the C cast, which
\* builds resolve by two's-complement wrapping of the integer part or by
\* saturation.
CastOutcomes == {"wrap", "saturate"}

astype_int16(floats8, ub) ==
    [i \in 1..Len(floats8) |->
        LET v == PyInt(floats8[i], 8)
        IN  IF MinSample(2) <= v /\ v <= MaxSample(2) THEN v
            ELSE IF ub = "wrap" THEN Wrap(v, 2) ELSE Clamp(v, 2)]

\* lines 48-51: the robot effect on a 16-bit segment
RobotEffect(seg, g, ub) ==
    Spawn(seg, astype_int16(pitch_shift(seg.data, g), ub))

(***************************************************************************)
(* The style registry, lines 22-29.  speed is in tenths (1.0 is 10), pitch  *)
(* in cents, volume in dB; a profile without an "effect" key has effect     *)
(* "none" (style_params.get("effect") is None).                             *)
(***************************************************************************)
Profile(speed, pitch, volume, effect) ==
    [speed |-> speed, pitch |-> pitch, volume |-> volume, effect |-> effect]

StyleNames == {"neutral", "happy", "sad", "angry", "whisper", "robot"}

VoiceStylesTable ==
    [n \in StyleNames |->
        CASE n = "neutral" -> Profile(10, 0, 0, "none")
          [] n = "happy"   -> Profile(12, 50, 2, "none")
          [] n = "sad"     -> Profile(8, -30, -3, "none")
          [] n = "angry"   -> Profile(11, 20, 6, "none")
          [] n = "whisper" -> Profile(9, -50, -10, "none")
          [] n = "robot"   -> Profile(10, 0, 0, "robot")]

(***************************************************************************)
(* The three stages of process_audio as functions of the segment and the    *)
(* profile.                                                                 *)
(***************************************************************************)
\* a mutation: the speed stage without its guard
StageAUnguarded(seg, sp) == speedup(seg, sp.speed)

\* lines 45-46
StageA(seg, sp) ==
    IF sp.speed # 10 THEN speedup(seg, sp.speed) ELSE Ok(seg)

\* a mutation: the pitch test in front of the effect test
StageBPathPitchFirst(sp) ==
    IF sp.pitch # 0 THEN "resample"
    ELSE IF sp.effect = "robot" THEN "robot"
    ELSE "none"

\* lines 47-55: the branch taken
StageBPath(sp) ==
    IF sp.effect = "robot" THEN "robot"
    ELSE IF sp.pitch # 0 THEN "resample"
    ELSE "none"

\* lines 47-55: the segments the branch can produce
StageB(seg, sp) ==
    CASE StageBPath(sp) = "robot" ->
            {RobotEffect(seg, g, ub) : g \in PitchShiftGains, ub \in CastOutcomes}
      [] StageBPath(sp) = "resample" -> {ResamplePitch(seg, sp.pitch)}
      [] OTHER -> {seg}

\* lines 56-57
StageC(seg, sp) ==
    IF sp.volume # 0 THEN apply_gain(seg, sp.volume) ELSE seg

\* lines 45-57 as one function: the segments handed to the encoder, none
\* when the speed stage raises
process_audio(seg, sp) ==
    LET a == StageA(seg, sp)
    IN  IF a.ok THEN {StageC(b, sp) : b \in StageB(a.seg, sp)} ELSE {}

(***************************************************************************)
(* Inputs.  An encoded container is modelled by its format tag and the PCM  *)
(* buffer a decoder gets out of it.                                         *)
(***************************************************************************)
\* frames of the short buffers (too short for speedup to cut two chunks)
ShortFrames == 1

\* frames of the long buffers (three chunks at every registry speed)
LongFrames == 360

FrameRates == {1000}

PeakValues == {-32768, 32767}

\* a full-scale test signal
Ramp(n) == [i \in 1..n |-> ((i * 7919) % 65536) - 32768]

ShortBuffers ==
    {Seg([i \in 1..(f * c) |-> v], r, 2, c) :
        f \in 1..ShortFrames, c \in {1, 2}, v \in PeakValues, r \in FrameRates}

LongBuffers ==
    {Seg(Ramp(LongFrames * c), r, 2, c) : c \in {1, 2}, r \in FrameRates}

\* a 5-channel buffer: outside the formats the specification supports
SurroundBuffers ==
    {Seg([i \in 1..5 |-> 12000], r, 2, 5) : r \in FrameRates}

InputBuffers == ShortBuffers \cup LongBuffers \cup SurroundBuffers

Container(format, pcm) == [format |-> format, pcm |-> pcm]

NoSeg == Seg(<< >>, 0, 0, 0)

NoBytes == Container("none", NoSeg)

NoProfile == Profile(0, 0, 0, "unset")

\* mono or stereo, 16-bit, at least one whole frame
Supported(seg) ==
    /\ seg.channels \in {1, 2}
    /\ seg.sample_width = 2
    /\ Len(seg.data) > 0
    /\ Len(seg.data) % seg.channels = 0

(***************************************************************************)
(* State.  Calls are the invocations of process_audio that can be active    *)
(* at once (Streamlit runs each session's script in its own thread); the    *)
(* locals of invocation c are pc[c], style_params[c], audio_bytes[c],       *)
(* audio[c], output[c]; error[c] is the exception it raised; log[c] lists   *)
(* the stage bodies it has executed.  The m_* variables and mode, style,    *)
(* user_input are the locals of one run of main(); screen is what the run   *)
(* has shown.                                                               *)
(***************************************************************************)
VARIABLES voice_styles, pc, style_params, audio_bytes, audio, output, error,
          log, m_pc, mode, style, user_input, screen

vars == <<voice_styles, pc, style_params, audio_bytes, audio, output, error,
          log, m_pc, mode, style, user_input, screen>>

call_vars == <<pc, style_params, audio_bytes, audio, output, error, log>>

main_vars == <<m_pc, mode, style, user_input, screen>>

Calls == {1, 2}

Unbound == [bound |-> FALSE, value |-> << >>]

Bound(text) == [bound |-> TRUE, value |-> text]

Init ==
    /\ voice_styles = VoiceStylesTable
    /\ pc = [c \in Calls |-> "idle"]
    /\ style_params = [c \in Calls |-> NoProfile]
    /\ audio_bytes = [c \in Calls |-> NoBytes]
    /\ audio = [c \in Calls |-> NoSeg]
    /\ output = [c \in Calls |-> NoBytes]
    /\ error = [c \in Calls |-> "none"]
    /\ log = [c \in Calls |-> << >>]
    /\ m_pc = "sidebar"
    /\ mode = "unset"
    /\ style = "unset"
    /\ user_input = Unbound
    /\ screen = "blank"

(***************************************************************************)
(* process_audio, lines 43-60, one action per statement group.              *)
(***************************************************************************)
\* the profiles process_audio is called with: the registry's, and a robot
\* profile that also sets a pitch
ProfileInputs ==
    {voice_styles[n] : n \in DOMAIN voice_styles} \cup {Profile(10, 50, 0, "robot")}

\* a mutation: the gain statement moved in front of the effect statements
AfterStageGainEarly(at) ==
    CASE at = "decode" -> "speed"
      [] at = "speed"  -> "gain"
      [] at = "gain"   -> "effect"
      [] at = "effect" -> "export"
      [] at = "export" -> "done"

\* the statement order of lines 44-60: where control goes after each group
AfterStage(at) ==
    CASE at = "decode" -> "speed"
      [] at = "speed"  -> "effect"
      [] at = "effect" -> "gain"
      [] at = "gain"   -> "export"
      [] at = "export" -> "done"

\* entry of process_audio(audio_bytes, style_params)
Enter(c, bytes, sp) ==
    /\ pc' = [pc EXCEPT ![c] = "decode"]
    /\ style_params' = [style_params EXCEPT ![c] = sp]
    /\ audio_bytes' = [audio_bytes EXCEPT ![c] = bytes]
    /\ audio' = [audio EXCEPT ![c] = NoSeg]
    /\ output' = [output EXCEPT ![c] = NoBytes]
    /\ error' = [error EXCEPT ![c] = "none"]
    /\ log' = [log EXCEPT ![c] = << >>]

\* a caller invokes process_audio
Call(c) ==
    /\ pc[c] = "idle"
    /\ \E sp \in ProfileInputs, buf \in InputBuffers :
          Enter(c, Container("mp3", buf), sp)
    /\ UNCHANGED <<voice_styles, main_vars>>

\* line 44: audio = AudioSegment.from_file(BytesIO(audio_bytes.getvalue()))
Decode(c) ==
    /\ pc[c] = "decode"
    /\ audio' = [audio EXCEPT ![c] = audio_bytes[c].pcm]
    /\ pc' = [pc EXCEPT ![c] = AfterStage("decode")]
    /\ UNCHANGED <<voice_styles, style_params, audio_bytes, output, error, log,
                   main_vars>>

\* lines 45-46
StageSpeed(c) ==
    /\ pc[c] = "speed"
    /\ LET r == StageA(audio[c], style_params[c])
       IN  IF r.ok
           THEN /\ audio' = [audio EXCEPT ![c] = r.seg]
                /\ pc' = [pc EXCEPT ![c] = AfterStage("speed")]
                /\ error' = error
                /\ log' = [log EXCEPT ![c] =
                              IF style_params[c].speed # 10
                              THEN Append(@, "speed") ELSE @]
           ELSE /\ pc' = [pc EXCEPT ![c] = "raised"]
                /\ error' = [error EXCEPT ![c] = r.error]
                /\ UNCHANGED <<audio, log>>
    /\ UNCHANGED <<voice_styles, style_params, audio_bytes, output, main_vars>>

\* lines 47-55
StageEffect(c) ==
    /\ pc[c] = "effect"
    /\ \E seg \in StageB(audio[c], style_params[c]) :
          audio' = [audio EXCEPT ![c] = seg]
    /\ log' = [log EXCEPT ![c] =
                  IF StageBPath(style_params[c]) # "none"
                  THEN Append(@, StageBPath(style_params[c])) ELSE @]
    /\ pc' = [pc EXCEPT ![c] = AfterStage("effect")]
    /\ UNCHANGED <<voice_styles, style_params, audio_bytes, output, error,
                   main_vars>>

\* a mutation: the gain statement clears the profile's volume in place;
\* style_params is the registry's own dict, so the registry changes with it
StageGainInPlace(c) ==
    /\ pc[c] = "gain"
    /\ audio' = [audio EXCEPT ![c] = StageC(audio[c], style_params[c])]
    /\ log' = [log EXCEPT ![c] =
                  IF style_params[c].volume # 0 THEN Append(@, "gain") ELSE @]
    /\ style_params' = [style_params EXCEPT ![c].volume = 0]
    /\ voice_styles' =
          [n \in DOMAIN voice_styles |->
              IF voice_styles[n] = style_params[c]
              THEN [voice_styles[n] EXCEPT !.volume = 0] ELSE voice_styles[n]]
    /\ pc' = [pc EXCEPT ![c] = AfterStage("gain")]
    /\ UNCHANGED <<audio_bytes, output, error, main_vars>>

\* lines 56-57
StageGain(c) ==
    /\ pc[c] = "gain"
    /\ audio' = [audio EXCEPT ![c] = StageC(audio[c], style_params[c])]
    /\ log' = [log EXCEPT ![c] =
                  IF style_params[c].volume # 0 THEN Append(@, "gain") ELSE @]
    /\ pc' = [pc EXCEPT ![c] = AfterStage("gain")]
    /\ UNCHANGED <<voice_styles, style_params, audio_bytes, output, error,
                   main_vars>>

\* what audio.export(output, format="mp3") can end with: the encoder takes
\* mono and stereo; for more channels ffmpeg either downmixes or fails
ExportOutcomes(seg) ==
    IF seg.channels <= 2 THEN {"ok"} ELSE {"ok", "CouldntEncodeError"}

\* lines 58-60
Export(c) ==
    /\ pc[c] = "export"
    /\ \E res \in ExportOutcomes(audio[c]) :
          IF res = "ok"
          THEN /\ output' = [output EXCEPT ![c] = Container("mp3", audio[c])]
               /\ pc' = [pc EXCEPT ![c] = AfterStage("export")]
               /\ error' = error
          ELSE /\ pc' = [pc EXCEPT ![c] = "raised"]
               /\ error' = [error EXCEPT ![c] = res]
               /\ output' = output
    /\ UNCHANGED <<voice_styles, style_params, audio_bytes, audio, log, main_vars>>

\* the frame of a finished invocation is dropped
Leave(c) ==
    /\ pc' = [pc EXCEPT ![c] = "idle"]
    /\ style_params' = [style_params EXCEPT ![c] = NoProfile]
    /\ audio_bytes' = [audio_bytes EXCEPT ![c] = NoBytes]
    /\ audio' = [audio EXCEPT ![c] = NoSeg]
    /\ output' = [output EXCEPT ![c] = NoBytes]
    /\ error' = [error EXCEPT ![c] = "none"]
    /\ log' = [log EXCEPT ![c] = << >>]

\* the caller takes the result or the exception
Return(c) ==
    /\ pc[c] \in {"done", "raised"}
    /\ Leave(c)
    /\ UNCHANGED <<voice_styles, main_vars>>

Step(c) ==
    \/ Call(c)
    \/ Decode(c)
    \/ StageSpeed(c)
    \/ StageEffect(c)
    \/ StageGain(c)
    \/ Export(c)
    \/ Return(c)

\* one invocation after another
Next == \E c \in {1} : Step(c)

Spec == Init /\ [][Next]_vars

\* what gTTS writes: mono 16-bit speech
GttsOutputs == {b \in InputBuffers : b.channels = 1}

\* line 127 in a session's thread:
\* process_audio(audio_bytes, voice_styles[style])
SessionCall(c) ==
    /\ pc[c] = "idle"
    /\ \E name \in DOMAIN voice_styles, buf \in GttsOutputs :
          Enter(c, Container("mp3", buf), voice_styles[name])
    /\ UNCHANGED <<voice_styles, main_vars>>

\* invocations of concurrent sessions, interleaved statement by statement
NextConc ==
    \E c \in Calls :
        \/ SessionCall(c)
        \/ Decode(c)
        \/ StageSpeed(c)
        \/ StageEffect(c)
        \/ StageGain(c)
        \/ Export(c)
        \/ Return(c)

SpecConc == Init /\ [][NextConc]_vars

(***************************************************************************)
(* main(), lines 86-139: one run of the Streamlit script.  A text is a      *)
(* sequence of characters.                                                  *)
(***************************************************************************)
Modes == {"Text", "Audio Upload", "YouTube URL"}

Whitespace == {" ", "\t", "\n"}

RECURSIVE LStrip(_)
LStrip(s) ==
    IF s # << >> /\ Head(s) \in Whitespace THEN LStrip(Tail(s)) ELSE s

RECURSIVE RStrip(_)
RStrip(s) ==
    IF s # << >> /\ s[Len(s)] \in Whitespace
    THEN RStrip(SubSeq(s, 1, Len(s) - 1)) ELSE s

\* str.strip()
Strip(s) == RStrip(LStrip(s))

Blank == << " ", " " >>

Hello == << "h", "i" >>

\* what the user can leave in the text area
TextInputs == {<< >>, Blank, Hello}

\* what the user can leave in the URL field
UrlInputs == {<< >>, << "u" >>}

\* stt_from_audio, lines 62-69: a transcription, or an exception of the
\* model or the decoder (nothing in it is caught)
SttOutcomes == {Bound(<< >>), Bound(Hello), Unbound}

\* youtube_to_text, lines 71-84: the recognised text, or the message of
\* the caught exception
YouTubeOutcomes == {Hello, << "E", "r", "r", "o", "r" >>}

\* lines 89-98
Sidebar ==
    /\ m_pc = "sidebar"
    /\ mode' \in Modes
    /\ style' \in DOMAIN voice_styles
    /\ m_pc' = "col1"
    /\ UNCHANGED <<voice_styles, call_vars, user_input, screen>>

\* lines 101-102
Col1Text ==
    /\ m_pc = "col1" /\ mode = "Text"
    /\ \E text \in TextInputs : user_input' = Bound(text)
    /\ m_pc' = "col2"
    /\ UNCHANGED <<voice_styles, call_vars, mode, style, screen>>

\* lines 103-107
Col1Upload ==
    /\ m_pc = "col1" /\ mode = "Audio Upload"
    /\ \E file \in BOOLEAN :
          IF file
          THEN \E r \in SttOutcomes :
                  IF r.bound
                  THEN /\ user_input' = r
                       /\ m_pc' = "col2"
                       /\ screen' = IF r.value # << >> THEN "transcription"
                                    ELSE screen
                  ELSE /\ m_pc' = "crashed"
                       /\ screen' = "exception in stt_from_audio"
                       /\ user_input' = user_input
          ELSE /\ user_input' = Bound(<< >>)
               /\ m_pc' = "col2"
               /\ screen' = screen
    /\ UNCHANGED <<voice_styles, call_vars, mode, style>>

\* lines 108-114
Col1YouTube ==
    /\ m_pc = "col1" /\ mode = "YouTube URL"
    /\ \E url \in UrlInputs :
          IF url # << >>
          THEN \E text \in YouTubeOutcomes :
                  /\ user_input' = Bound(text)
                  /\ screen' = "transcription"
          ELSE UNCHANGED <<user_input, screen>>
    /\ m_pc' = "col2"
    /\ UNCHANGED <<voice_styles, call_vars, mode, style>>

\* lines 115-120: the button, and the test of user_input
Col2 ==
    /\ m_pc = "col2"
    /\ \E pressed \in BOOLEAN :
          IF ~pressed
          THEN /\ m_pc' = "rendered"
               /\ screen' = screen
          ELSE IF ~user_input.bound
          THEN /\ m_pc' = "crashed"
               /\ screen' = "UnboundLocalError"
          ELSE IF Strip(user_input.value) = << >>
          THEN /\ m_pc' = "rendered"
               /\ screen' = "warning"
          ELSE /\ m_pc' = "tts"
               /\ screen' = "spinner"
    /\ UNCHANGED <<voice_styles, call_vars, mode, style, user_input>>

\* lines 121-127: detect_language and translate_text catch what they raise;
\* gTTS either raises (caught at line 138) or hands its audio to
\* process_audio
Tts ==
    /\ m_pc = "tts"
    /\ \/ /\ m_pc' = "rendered"
          /\ screen' = "error"
          /\ UNCHANGED call_vars
       \/ /\ \E buf \in GttsOutputs :
                Enter(1, Container("mp3", buf), voice_styles[style])
          /\ m_pc' = "processing"
          /\ screen' = screen
    /\ UNCHANGED <<voice_styles, mode, style, user_input>>

\* lines 128-137
Show ==
    /\ m_pc = "processing" /\ pc[1] = "done"
    /\ Leave(1)
    /\ m_pc' = "rendered"
    /\ screen' = "audio"
    /\ UNCHANGED <<voice_styles, mode, style, user_input>>

\* lines 138-139
ShowError ==
    /\ m_pc = "processing" /\ pc[1] = "raised"
    /\ Leave(1)
    /\ m_pc' = "rendered"
    /\ screen' = "error"
    /\ UNCHANGED <<voice_styles, mode, style, user_input>>

\* the next interaction runs the script again from its first line
Rerun ==
    /\ m_pc \in {"rendered", "crashed"}
    /\ m_pc' = "sidebar"
    /\ mode' = "unset"
    /\ style' = "unset"
    /\ user_input' = Unbound
    /\ screen' = "blank"
    /\ UNCHANGED <<voice_styles, call_vars>>

NextMain ==
    \/ Sidebar
    \/ Col1Text
    \/ Col1Upload
    \/ Col1YouTube
    \/ Col2
    \/ Tts
    \/ Decode(1)
    \/ StageSpeed(1)
    \/ StageEffect(1)
    \/ StageGain(1)
    \/ Export(1)
    \/ Show
    \/ ShowError
    \/ Rerun

SpecMain == Init /\ [][NextMain]_vars

(***************************************************************************)
(* Properties.                                                              *)
(***************************************************************************)
Range(s) == {s[i] : i \in DOMAIN s}

Decoded(c) == audio_bytes[c].pcm

StageRank(name) ==
    CASE name = "speed" -> 1
      [] name \in {"robot", "resample"} -> 2
      [] name = "gain" -> 3

\* C1: in every invocation the executed stage bodies come in the order
\* speed, pitch/effect, gain, and the buffer handed to the encoder is the
\* gain stage applied to the pitch/effect stage applied to the speed stage
\* of the decoded buffer.
C1_StageOrder ==
    \A c \in Calls :
        /\ \A i, j \in DOMAIN log[c] :
              i < j => StageRank(log[c][i]) < StageRank(log[c][j])
        /\ pc[c] \in {"export", "done"} =>
              audio[c] \in process_audio(Decoded(c), style_params[c])

\* C1 witness: all three stage bodies have run on a long buffer
C1_Witness ==
    /\ pc[1] = "export"
    /\ log[1] = << "speed", "resample", "gain" >>
    /\ audio[1].data # Decoded(1).data

\* C2: with the neutral profile no stage alters a supported decoded buffer:
\* the segment is the decoded one after every stage, the encoder is handed
\* the decoded one, and a second pass over the result changes nothing.
C2_NeutralIdentity ==
    \A c \in Calls :
        (/\ style_params[c] = VoiceStylesTable["neutral"]
         /\ Supported(Decoded(c))
         /\ pc[c] \in {"effect", "gain", "export", "done"}) =>
            /\ audio[c] = Decoded(c)
            /\ pc[c] = "done" => output[c].pcm = Decoded(c)
            /\ process_audio(audio[c], style_params[c]) = {audio[c]}

\* C2 witness: a neutral invocation on a long stereo buffer has finished
C2_Witness ==
    /\ pc[1] = "done"
    /\ style_params[1] = VoiceStylesTable["neutral"]
    /\ Decoded(1).channels = 2
    /\ FrameCount(Decoded(1)) = LongFrames

Abs(x) == IF x < 0 THEN -x ELSE x

\* C3 (as claimed): a step of Stage B on the resample path leaves the
\* segment's frame rate as it was on entry, and its duration within 1 ms.
C3_ResampleRestoresRate ==
    [][\A c \in Calls :
          (/\ pc[c] = "effect" /\ pc'[c] = "gain"
           /\ style_params[c].effect # "robot"
           /\ style_params[c].pitch # 0) =>
              /\ audio'[c].frame_rate = audio[c].frame_rate
              /\ Abs(LenMs(audio'[c]) - LenMs(audio[c])) <= 1]_vars

\* C4: after each stage of an invocation on a supported buffer the segment
\* has the decoded buffer's channel count and sample width, and a positive
\* number of samples that the channel count divides.
C4_FormatPreserved ==
    \A c \in Calls :
        (/\ Supported(Decoded(c))
         /\ pc[c] \in {"effect", "gain", "export", "done"}) =>
            /\ audio[c].channels = Decoded(c).channels
            /\ audio[c].sample_width = Decoded(c).sample_width
            /\ Len(audio[c].data) > 0
            /\ Len(audio[c].data) % audio[c].channels = 0

\* C4 witness: the speed, resample and gain stages have run on a stereo
\* buffer and changed its length
C4_Witness ==
    /\ pc[1] = "export"
    /\ log[1] = << "speed", "resample", "gain" >>
    /\ Decoded(1).channels = 2
    /\ Len(audio[1].data) # Len(Decoded(1).data)

\* C5 (as claimed): the robot effect stores each out-of-range value of the
\* float result as the nearest bound of the 16-bit range, and so does gain.
C5_ClampedNeverWrapped ==
    [][\A c \in Calls :
          /\ (/\ pc[c] = "effect" /\ pc'[c] = "gain"
              /\ style_params[c].effect = "robot") =>
                 \E g \in PitchShiftGains :
                    audio'[c].data =
                        [i \in 1..Len(audio[c].data) |->
                            Clamp(PyInt(audio[c].data[i] * g, 8), 2)]
          /\ (/\ pc[c] = "gain" /\ pc'[c] = "export"
              /\ style_params[c].volume # 0) =>
                 LET f == db_to_float(style_params[c].volume)
                 IN  audio'[c].data =
                        [i \in 1..Len(audio[c].data) |->
                            Clamp(MulFloor(audio[c].data[i], f[1], f[2]), 2)]]_vars

\* C6 (as claimed): no invocation on a supported buffer raises.
C6_NeverFailsOnValidInput ==
    \A c \in Calls : Supported(Decoded(c)) => pc[c] # "raised"

\* C7 (as claimed): an invocation on a buffer of an unsupported format is
\* rejected: it executes no stage body and hands no encoded output back.
C7_RejectsUnsupported ==
    \A c \in Calls :
        (pc[c] \notin {"idle", "decode"} /\ ~Supported(Decoded(c))) =>
            /\ log[c] = << >>
            /\ pc[c] # "done"
            /\ output[c] = NoBytes

\* the table of the specification, section 4.1
SpecTable ==
    [n \in {"neutral", "happy", "sad", "angry", "whisper", "robot"} |->
        CASE n = "neutral" -> [speed |-> 10, pitch |-> 0, volume |-> 0, effect |-> "none"]
          [] n = "happy"   -> [speed |-> 12, pitch |-> 50, volume |-> 2, effect |-> "none"]
          [] n = "sad"     -> [speed |-> 8, pitch |-> -30, volume |-> -3, effect |-> "none"]
          [] n = "angry"   -> [speed |-> 11, pitch |-> 20, volume |-> 6, effect |-> "none"]
          [] n = "whisper" -> [speed |-> 9, pitch |-> -50, volume |-> -10, effect |-> "none"]
          [] n = "robot"   -> [speed |-> 10, pitch |-> 0, volume |-> 0, effect |-> "robot"]]

\* C8: under any interleaving of concurrent invocations the registry holds
\* the six profiles of the specification's table, every invocation works
\* with the profile it was called with, and what it hands back is a result
\* of the pipeline on its own input alone.
C8_RegistryReadOnly ==
    /\ voice_styles = SpecTable
    /\ \A c \in Calls :
          /\ pc[c] # "idle" => style_params[c] \in Range(SpecTable)
          /\ pc[c] = "done" =>
                output[c].pcm \in process_audio(Decoded(c), style_params[c])

\* C8 witness: two invocations with different profiles and buffers are in
\* the middle of their pipelines at the same time
C8_Witness ==
    /\ pc[1] = "gain" /\ pc[2] = "effect"
    /\ style_params[1] = SpecTable["angry"]
    /\ style_params[2] = SpecTable["robot"]
    /\ log[1] = << "speed", "resample" >>

\* C9: a step of Stage B does exactly one of three things: with effect
\* robot, the robot effect and no change of the frame rate, whatever the
\* pitch; otherwise, with a pitch, the resample path alone (the samples
\* stay); otherwise nothing.
C9_StageBExclusive ==
    [][\A c \in Calls :
          (pc[c] = "effect" /\ pc'[c] = "gain") =>
              LET sp == style_params[c]
                  ran == Range(log'[c]) \ Range(log[c])
              IN  IF sp.effect = "robot"
                  THEN /\ ran = {"robot"}
                       /\ audio'[c].frame_rate = audio[c].frame_rate
                       /\ \E g \in PitchShiftGains, ub \in CastOutcomes :
                             audio'[c] = RobotEffect(audio[c], g, ub)
                  ELSE IF sp.pitch # 0
                  THEN /\ ran = {"resample"}
                       /\ audio'[c] = ResamplePitch(audio[c], sp.pitch)
                       /\ audio'[c].data = audio[c].data
                  ELSE /\ ran = {}
                       /\ audio'[c] = audio[c]]_vars

\* C9 witness: the robot effect has run for a profile that also sets a pitch
C9_Witness ==
    /\ pc[1] = "gain"
    /\ style_params[1].effect = "robot"
    /\ style_params[1].pitch # 0
    /\ log[1] = << "robot" >>
    /\ audio[1].frame_rate = Decoded(1).frame_rate

\* C10 (as claimed): user_input is bound whenever line 117 reads it, so
\* no run of main() ends in an unhandled UnboundLocalError.
C10_UserInputBound ==
    ~(m_pc = "crashed" /\ screen = "UnboundLocalError" /\ ~user_input.bound)

====
